---- MODULE Spec2Model ----
(***************************************************************************)
(* A model of the waitx gate (src/src/lib.rs): an atomic ready flag, a     *)
(* condition variable and a mutex owned by a Waiter, and the Notifier,     *)
(* Setter and Spectator handles derived from it.                           *)
(*                                                                         *)
(* Every access to the flag is one atomic step.  The flag is a single      *)
(* atomic location accessed with Release stores and Acquire loads, so its  *)
(* modification order is total and each load returns the latest store of   *)
(* an interleaving.  Steps that touch only thread-local data are merged    *)
(* into the preceding shared step.                                         *)
(***************************************************************************)
EXTENDS Naturals, FiniteSets

\* Backoff's completion threshold (crossbeam's YIELD_LIMIT), kept small.
YieldLimit == 2

Waiters == {"w1", "w2"}
Notifiers == {"n1", "n2"}
Kinds == {"notifier", "setter", "spectator"}
NoThread == "none"

VARIABLES
    ready,        \* Waiter.ready: the shared AtomicBool
    mutex,        \* Waiter.mutex: the thread holding it, or NoThread
    parked,       \* Waiter.cvar: the threads waiting on the condition variable
    pc,           \* each waiter thread's position in wait()
    is_ready,     \* wait()'s local is_ready, per waiter thread
    step,         \* wait()'s local Backoff counter, per waiter thread
    npc,          \* each notifier thread's position in notify()
    handles,      \* the kinds of handle the factories have produced
    seen,         \* the value the last is_ready() call returned
    epoch,        \* history: the last write to the flag
    openAtStart,  \* history: a store of true preceded this wait() call, with no reset since
    readyAtLock,  \* history: the flag's value when the waiter acquired the mutex
    seenEpoch,    \* history: the last write to the flag when is_ready() last ran
    wokenByNotify, \* history: notify_one woke the thread in this wait() call, no reset since
    again,        \* history: this wait() call follows one that returned on the same thread
    overtaken     \* history: the notifiers whose store a reset() followed before their wake

vars == <<ready, mutex, parked, pc, is_ready, step, npc, handles, seen, epoch, openAtStart,
          readyAtLock, seenEpoch, wokenByNotify, again, overtaken>>

gate == <<ready, mutex, parked>>
waiterVars == <<pc, is_ready, step, openAtStart, readyAtLock, wokenByNotify, again>>

TypeOK ==
    /\ ready \in BOOLEAN
    /\ mutex \in Waiters \cup {NoThread}
    /\ parked \subseteq Waiters
    /\ pc \in [Waiters -> {"idle", "load", "snooze", "lock", "locked", "parked",
                           "woken", "unlock", "done"}]
    /\ is_ready \in [Waiters -> BOOLEAN]
    /\ step \in [Waiters -> 0..(YieldLimit + 1)]
    /\ npc \in [Notifiers -> {"idle", "stored", "done"}]
    /\ handles \subseteq Kinds
    /\ seen \in {"none", "true", "false"}
    /\ epoch \in {"fresh", "stored", "reset"}
    /\ openAtStart \in [Waiters -> BOOLEAN]
    /\ readyAtLock \in [Waiters -> BOOLEAN]
    /\ seenEpoch \in {"none", "fresh", "stored", "reset"}
    /\ wokenByNotify \in [Waiters -> BOOLEAN]
    /\ again \in [Waiters -> BOOLEAN]
    /\ overtaken \subseteq Notifiers

\* Waiter::new / Default: flag false, nobody parked, mutex free, no handle yet.
Init ==
    /\ ready = FALSE
    /\ mutex = NoThread
    /\ parked = {}
    /\ pc = [t \in Waiters |-> "idle"]
    /\ is_ready = [t \in Waiters |-> FALSE]
    /\ step = [t \in Waiters |-> 0]
    /\ npc = [n \in Notifiers |-> "idle"]
    /\ handles = {}
    /\ seen = "none"
    /\ epoch = "fresh"
    /\ openAtStart = [t \in Waiters |-> FALSE]
    /\ readyAtLock = [t \in Waiters |-> FALSE]
    /\ seenEpoch = "none"
    /\ wokenByNotify = [t \in Waiters |-> FALSE]
    /\ again = [t \in Waiters |-> FALSE]
    /\ overtaken = {}

\* Backoff::is_completed
IsCompleted(t) == step[t] > YieldLimit

\* wait() is entered: let backoff = Backoff::new()
WaitStart(t) ==
    /\ pc[t] \in {"idle", "done"}
    /\ pc' = [pc EXCEPT ![t] = "load"]
    /\ step' = [step EXCEPT ![t] = 0]
    /\ is_ready' = [is_ready EXCEPT ![t] = FALSE]
    /\ openAtStart' = [openAtStart EXCEPT ![t] = (epoch = "stored")]
    /\ wokenByNotify' = [wokenByNotify EXCEPT ![t] = FALSE]
    /\ again' = [again EXCEPT ![t] = (pc[t] = "done")]
    /\ UNCHANGED <<gate, npc, overtaken, handles, seen, seenEpoch, epoch, readyAtLock>>

\* A wait() that spins its backoff out before it honours the flag.
AfterLoadSpinFirst(t, v) ==
    IF ~IsCompleted(t) THEN "snooze" ELSE IF v THEN "done" ELSE "lock"

\* A wait() that consults the backoff before the flag.
AfterLoadLockFirst(t, v) ==
    IF IsCompleted(t) THEN "lock" ELSE IF v THEN "done" ELSE "snooze"

\* The position after the flag load: break, lock-and-park path, or snooze.
AfterLoad(t, v) ==
    IF v THEN "done" ELSE IF IsCompleted(t) THEN "lock" ELSE "snooze"

\* A wait() that consumes the signal it observes (an auto-reset gate).
LoadConsuming(t) ==
    /\ pc[t] = "load"
    /\ is_ready' = [is_ready EXCEPT ![t] = ready]
    /\ pc' = [pc EXCEPT ![t] = AfterLoad(t, ready)]
    /\ ready' = FALSE
    /\ UNCHANGED <<mutex, parked, step, openAtStart, wokenByNotify, again, readyAtLock, npc, overtaken, handles, seen, seenEpoch, epoch>>

\* let is_ready = self.ready.load(Acquire); if is_ready { break }; if backoff.is_completed() ..
Load(t) ==
    /\ pc[t] = "load"
    /\ is_ready' = [is_ready EXCEPT ![t] = ready]
    /\ pc' = [pc EXCEPT ![t] = AfterLoad(t, ready)]
    /\ UNCHANGED <<gate, step, openAtStart, wokenByNotify, again, readyAtLock, npc, overtaken, handles, seen, seenEpoch, epoch>>

\* A wait() that calls backoff.spin(): the counter stops below the limit.
SnoozeAsSpin(t) ==
    /\ pc[t] = "snooze"
    /\ step' = [step EXCEPT ![t] = IF step[t] < YieldLimit THEN step[t] + 1 ELSE step[t]]
    /\ pc' = [pc EXCEPT ![t] = "load"]
    /\ UNCHANGED <<gate, is_ready, openAtStart, wokenByNotify, again, readyAtLock, npc, overtaken, handles, seen, seenEpoch, epoch>>

\* backoff.snooze(): the counter advances until it is past the limit
Snooze(t) ==
    /\ pc[t] = "snooze"
    /\ step' = [step EXCEPT ![t] = IF step[t] <= YieldLimit THEN step[t] + 1 ELSE step[t]]
    /\ pc' = [pc EXCEPT ![t] = "load"]
    /\ UNCHANGED <<gate, is_ready, openAtStart, wokenByNotify, again, readyAtLock, npc, overtaken, handles, seen, seenEpoch, epoch>>

\* let mut guard = self.mutex.lock()
Lock(t) ==
    /\ pc[t] = "lock"
    /\ mutex = NoThread
    /\ mutex' = t
    /\ pc' = [pc EXCEPT ![t] = "locked"]
    /\ readyAtLock' = [readyAtLock EXCEPT ![t] = ready]
    /\ UNCHANGED <<ready, parked, is_ready, step, openAtStart, wokenByNotify, again, npc, overtaken, handles, seen, seenEpoch, epoch>>

\* The condition tested under the lock: the local is_ready of this iteration.
ParkTest(t) == ~is_ready[t]

\* A wait() that parks without releasing the mutex.
ParkHolding(t) ==
    /\ pc[t] = "locked"
    /\ parked' = parked \cup {t}
    /\ pc' = [pc EXCEPT ![t] = "parked"]
    /\ readyAtLock' = [readyAtLock EXCEPT ![t] = FALSE]
    /\ UNCHANGED <<ready, mutex, is_ready, step, openAtStart, wokenByNotify, again, npc, overtaken, handles, seen, seenEpoch, epoch>>

\* if !is_ready { self.cvar.wait(&mut guard) }: the thread joins the condition
\* variable's queue and releases the mutex in one step.
Park(t) ==
    /\ pc[t] = "locked"
    /\ IF ParkTest(t)
       THEN /\ parked' = parked \cup {t}
            /\ mutex' = NoThread
            /\ pc' = [pc EXCEPT ![t] = "parked"]
       ELSE /\ pc' = [pc EXCEPT ![t] = "unlock"]
            /\ UNCHANGED <<parked, mutex>>
    /\ readyAtLock' = [readyAtLock EXCEPT ![t] = FALSE]
    /\ UNCHANGED <<ready, is_ready, step, openAtStart, wokenByNotify, again, npc, overtaken, handles, seen, seenEpoch, epoch>>

\* cvar.wait returns only with the mutex held again
Relock(t) ==
    /\ pc[t] = "woken"
    /\ mutex = NoThread
    /\ mutex' = t
    /\ pc' = [pc EXCEPT ![t] = "unlock"]
    /\ UNCHANGED <<ready, parked, is_ready, step, openAtStart, wokenByNotify, again, readyAtLock, npc, overtaken, handles, seen, seenEpoch, epoch>>

\* A wait() that resets its backoff after each wake.
UnlockResetting(t) ==
    /\ pc[t] = "unlock"
    /\ mutex' = NoThread
    /\ pc' = [pc EXCEPT ![t] = "load"]
    /\ step' = [step EXCEPT ![t] = 0]
    /\ UNCHANGED <<ready, parked, is_ready, openAtStart, wokenByNotify, again, readyAtLock, npc, overtaken, handles, seen, seenEpoch, epoch>>

\* A wait() that returns after the wake instead of looping (if in place of loop).
UnlockReturning(t) ==
    /\ pc[t] = "unlock"
    /\ mutex' = NoThread
    /\ pc' = [pc EXCEPT ![t] = "done"]
    /\ UNCHANGED <<ready, parked, is_ready, step, openAtStart, wokenByNotify, again, readyAtLock, npc, overtaken, handles, seen, seenEpoch, epoch>>

\* the guard is dropped at the end of the block; the loop goes back to the load
Unlock(t) ==
    /\ pc[t] = "unlock"
    /\ mutex' = NoThread
    /\ pc' = [pc EXCEPT ![t] = "load"]
    /\ UNCHANGED <<ready, parked, is_ready, step, openAtStart, wokenByNotify, again, readyAtLock, npc, overtaken, handles, seen, seenEpoch, epoch>>

\* a wake of the condition variable that no notify caused
SpuriousWake(t) ==
    /\ t \in parked
    /\ parked' = parked \ {t}
    /\ pc' = [pc EXCEPT ![t] = "woken"]
    /\ UNCHANGED <<ready, mutex, is_ready, step, openAtStart, wokenByNotify, again, readyAtLock, npc, overtaken, handles, seen, seenEpoch, epoch>>

\* A notify() that flips the flag instead of setting it.
NotifyStoreToggling(n) ==
    /\ "notifier" \in handles
    /\ npc[n] \in {"idle", "done"}
    /\ ready' = ~ready
    /\ epoch' = "stored"
    /\ npc' = [npc EXCEPT ![n] = "stored"]
    /\ UNCHANGED <<mutex, parked, waiterVars, overtaken, handles, seen, seenEpoch>>

\* A notify() that wakes without storing the flag.
NotifyStoreDropped(n) ==
    /\ "notifier" \in handles
    /\ npc[n] \in {"idle", "done"}
    /\ npc' = [npc EXCEPT ![n] = "stored"]
    /\ UNCHANGED <<ready, epoch, mutex, parked, waiterVars, overtaken, handles, seen, seenEpoch>>

\* notify(): self.ready.store(true, Release)
NotifyStore(n) ==
    /\ "notifier" \in handles
    /\ npc[n] \in {"idle", "done"}
    /\ ready' = TRUE
    /\ epoch' = "stored"
    /\ npc' = [npc EXCEPT ![n] = "stored"]
    /\ UNCHANGED <<mutex, parked, waiterVars, overtaken, handles, seen, seenEpoch>>

\* A notify() that calls notify_all: every queued thread is woken.
NotifyOneAll(n) ==
    /\ npc[n] = "stored"
    /\ npc' = [npc EXCEPT ![n] = "done"]
    /\ overtaken' = overtaken \ {n}
    /\ parked' = {}
    /\ pc' = [t \in Waiters |-> IF t \in parked THEN "woken" ELSE pc[t]]
    /\ wokenByNotify' = [t \in Waiters |-> IF t \in parked THEN n \notin overtaken ELSE wokenByNotify[t]]
    /\ UNCHANGED <<ready, mutex, is_ready, step, openAtStart, again, readyAtLock, handles, seen, seenEpoch, epoch>>

\* A notify() that leaves the wake out.
NotifyOneDropped(n) ==
    /\ npc[n] = "stored"
    /\ npc' = [npc EXCEPT ![n] = "done"]
    /\ overtaken' = overtaken \ {n}
    /\ UNCHANGED <<parked, pc>>
    /\ UNCHANGED <<ready, mutex, is_ready, step, openAtStart, wokenByNotify, again, readyAtLock, handles, seen, seenEpoch, epoch>>

\* A notify() that takes the gate's mutex around the wake.
NotifyOneLocked(n) ==
    /\ npc[n] = "stored"
    /\ mutex = NoThread
    /\ npc' = [npc EXCEPT ![n] = "done"]
    /\ overtaken' = overtaken \ {n}
    /\ \/ /\ parked = {}
          /\ UNCHANGED <<parked, pc, wokenByNotify>>
       \/ \E t \in parked :
             /\ parked' = parked \ {t}
             /\ pc' = [pc EXCEPT ![t] = "woken"]
             /\ wokenByNotify' = [wokenByNotify EXCEPT ![t] = (n \notin overtaken)]
    /\ UNCHANGED <<ready, mutex, is_ready, step, openAtStart, again, readyAtLock, handles, seen, seenEpoch, epoch>>

\* notify(): self.cvar.notify_one(): one queued thread is woken, if there is one
NotifyOne(n) ==
    /\ npc[n] = "stored"
    /\ npc' = [npc EXCEPT ![n] = "done"]
    /\ overtaken' = overtaken \ {n}
    /\ \/ /\ parked = {}
          /\ UNCHANGED <<parked, pc, wokenByNotify>>
       \/ \E t \in parked :
             /\ parked' = parked \ {t}
             /\ pc' = [pc EXCEPT ![t] = "woken"]
             /\ wokenByNotify' = [wokenByNotify EXCEPT ![t] = (n \notin overtaken)]
    /\ UNCHANGED <<ready, mutex, is_ready, step, openAtStart, again, readyAtLock, handles, seen, seenEpoch, epoch>>

\* A set_ready() that also wakes a queued thread.
SetReadyWaking ==
    /\ "setter" \in handles
    /\ ready' = TRUE
    /\ epoch' = "stored"
    /\ \/ /\ parked = {}
          /\ UNCHANGED <<parked, pc>>
       \/ \E t \in parked :
             /\ parked' = parked \ {t}
             /\ pc' = [pc EXCEPT ![t] = "woken"]
    /\ UNCHANGED <<mutex, is_ready, step, openAtStart, wokenByNotify, again, readyAtLock, npc, overtaken, handles, seen, seenEpoch>>

\* Setter::set_ready
SetReady ==
    /\ "setter" \in handles
    /\ ready' = TRUE
    /\ epoch' = "stored"
    /\ UNCHANGED <<mutex, parked, waiterVars, npc, overtaken, handles, seen, seenEpoch>>

\* A reset() that stores the wrong constant.
ResetStoringTrue ==
    /\ ready' = TRUE
    /\ epoch' = "reset"
    /\ openAtStart' = [t \in Waiters |-> FALSE]
    /\ wokenByNotify' = [t \in Waiters |-> FALSE]
    /\ overtaken' = {n \in Notifiers : npc[n] = "stored"}
    /\ UNCHANGED <<mutex, parked, pc, is_ready, step, readyAtLock, again, npc, handles, seen, seenEpoch>>

\* Waiter::reset
Reset ==
    /\ ready' = FALSE
    /\ epoch' = "reset"
    /\ openAtStart' = [t \in Waiters |-> FALSE]
    /\ wokenByNotify' = [t \in Waiters |-> FALSE]
    /\ overtaken' = {n \in Notifiers : npc[n] = "stored"}
    /\ UNCHANGED <<mutex, parked, pc, is_ready, step, readyAtLock, again, npc, handles, seen, seenEpoch>>

\* An is_ready() that swaps the flag out instead of loading it.
IsReadyConsuming ==
    /\ "spectator" \in handles
    /\ seen' = IF ready THEN "true" ELSE "false"
    /\ seenEpoch' = epoch
    /\ ready' = FALSE
    /\ UNCHANGED <<mutex, parked, waiterVars, npc, overtaken, handles, epoch>>

\* Spectator::is_ready
IsReady ==
    /\ "spectator" \in handles
    /\ seen' = IF ready THEN "true" ELSE "false"
    /\ seenEpoch' = epoch
    /\ UNCHANGED <<gate, waiterVars, npc, overtaken, handles, epoch>>

\* Waiter::notifier / setter / spectator
MakeHandle(k) ==
    /\ handles' = handles \cup {k}
    /\ UNCHANGED <<gate, waiterVars, npc, overtaken, seen, seenEpoch, epoch>>

MakeNotifier == MakeHandle("notifier")
MakeSetter == MakeHandle("setter")
MakeSpectator == MakeHandle("spectator")

WaiterStep(t) ==
    \/ WaitStart(t)
    \/ Load(t)
    \/ Snooze(t)
    \/ Lock(t)
    \/ Park(t)
    \/ Relock(t)
    \/ Unlock(t)

NotifierStep(n) ==
    \/ NotifyStore(n)
    \/ NotifyOne(n)

Next ==
    \/ \E t \in Waiters : WaiterStep(t)
    \/ \E t \in Waiters : SpuriousWake(t)
    \/ \E n \in Notifiers : NotifierStep(n)
    \/ SetReady
    \/ Reset
    \/ IsReady
    \/ MakeNotifier
    \/ MakeSetter
    \/ MakeSpectator

Spec == Init /\ [][Next]_vars

(***************************************************************************)
(* One waiter, one notify() call: thread w1 calls wait(), thread n1 calls  *)
(* notify() once.  No set_ready, no reset, no spurious wake.  Every thread *)
(* that can take a step eventually takes one.                              *)
(***************************************************************************)
NotifyOnce(n) ==
    \/ npc[n] = "idle" /\ NotifyStore(n)
    \/ NotifyOne(n)

NextOneNotify ==
    \/ WaiterStep("w1")
    \/ NotifyOnce("n1")
    \/ MakeNotifier
    \/ MakeSpectator
    \/ IsReady

SpecOneNotify ==
    /\ Init
    /\ [][NextOneNotify]_vars
    /\ WF_vars(WaiterStep("w1"))
    /\ WF_vars(NotifyOnce("n1"))
    /\ WF_vars(MakeNotifier)

(***************************************************************************)
(* One waiter and any number of notify() calls by two threads.  No         *)
(* set_ready, no reset, no spurious wake.                                  *)
(***************************************************************************)
NextNotifyOnly ==
    \/ WaiterStep("w1")
    \/ \E n \in Notifiers : NotifierStep(n)
    \/ MakeNotifier

SpecNotifyOnly == Init /\ [][NextNotifyOnly]_vars

\* C1: with one waiter and one notify() call, under weak fairness of both
\* threads, the wait() call eventually returns.
WaitEventuallyReturns == <>(pc["w1"] = "done")

\* C2: a wait() call returns only in the step that loads the flag and reads
\* true; a woken thread goes back to the load and never returns from the wake.
ReturnsOnlyOnTrueLoad ==
    [][\A t \in Waiters :
          /\ (pc[t] # "done" /\ pc'[t] = "done") => (pc[t] = "load" /\ ready /\ is_ready'[t])
          /\ (pc[t] = "parked" /\ pc'[t] # "parked") => pc'[t] = "woken"
          /\ (pc[t] = "load" /\ ~ready) => pc'[t] \in {"load", "snooze", "lock"}]_vars

\* A wait() has returned while the other waiter was woken with the flag false.
ReturnedAndWokenOnFalse ==
    /\ pc["w1"] = "done"
    /\ is_ready["w1"]
    /\ pc["w2"] = "woken"
    /\ ~ready

\* C3: a thread parks only if the flag was false when it acquired the lock.
ParksOnlyIfFalseUnderLock ==
    [][\A t \in Waiters :
          (pc[t] = "locked" /\ pc'[t] = "parked") => ~readyAtLock[t]]_vars

\* C4: with one waiter and only notify() calls, the waiter is never parked
\* when a notify() has completed and none is in progress.
NoLostWakeup ==
    ~ /\ pc["w1"] = "parked"
      /\ \E n \in Notifiers : npc[n] = "done"
      /\ \A n \in Notifiers : npc[n] # "stored"

\* C5: a wait() that starts after a store of true, with no reset since, stays
\* on its first flag check until it returns: no snooze, no lock, no park.
ReadyBeforeWaitReturnsAtOnce ==
    \A t \in Waiters :
        openAtStart[t] =>
            /\ pc[t] \in {"load", "done"}
            /\ step[t] = 0
            /\ mutex # t
            /\ t \notin parked

\* set_ready() alone opened the gate, then w1 called wait() and it returned.
ReturnedAfterSetReady ==
    /\ openAtStart["w1"]
    /\ pc["w1"] = "done"
    /\ is_ready["w1"]
    /\ "setter" \in handles
    /\ "notifier" \notin handles

\* C6: the flag is true exactly when the last write to it was a store of true
\* by set_ready()/notify(), is_ready() returns that value, and only reset()
\* takes the flag from true to false.
FlagMonotonicInEpoch ==
    /\ [](ready <=> (epoch = "stored"))
    /\ [](seenEpoch \in {"fresh", "reset"} => seen = "false")
    /\ [](seenEpoch = "stored" => seen = "true")
    /\ [][(ready /\ ~ready') => Reset]_vars

\* is_ready() returned true and, after a reset(), the flag is false again
\* while a wait() that returned in the earlier epoch stays returned.
TrueSeenThenReset ==
    /\ seen = "true"
    /\ epoch = "reset"
    /\ ~ready
    /\ pc["w1"] = "done"

\* C7: set_ready() changes no thread's position and nobody's parked state; a
\* parked thread leaves the parked state only in a notify_one step or a
\* spurious wake, so without them it stays parked.
SetReadyWakesNobody ==
    /\ [][SetReady => (parked' = parked /\ pc' = pc /\ mutex' = mutex)]_vars
    /\ [][\A t \in Waiters :
             (pc[t] = "parked" /\ ~(\E n \in Notifiers : NotifyOne(n)) /\ ~SpuriousWake(t))
                 => (pc'[t] = "parked" /\ t \in parked')]_vars

\* A thread is parked while the flag is true, and only set_ready() can have
\* stored it: no Notifier handle exists.
ParkedUnderSetFlag ==
    /\ pc["w1"] = "parked"
    /\ ready
    /\ "setter" \in handles
    /\ "notifier" \notin handles

\* C8: a notify_one step wakes exactly one parked thread and leaves the other
\* threads where they are; with nobody parked it changes no thread, and a
\* thread that parks later does park.
NotifyWakesExactlyOne ==
    /\ [][\A n \in Notifiers :
             NotifyOne(n) =>
                 IF parked = {}
                 THEN parked' = {} /\ pc' = pc
                 ELSE \E t \in parked :
                         /\ parked' = parked \ {t}
                         /\ pc'[t] = "woken"
                         /\ \A u \in Waiters \ {t} : pc'[u] = pc[u]]_vars
    /\ [][\A t \in Waiters :
             (pc[t] = "locked" /\ pc'[t] # "locked")
                 => (pc'[t] = "parked" /\ t \in parked')]_vars

\* One of two parked threads was woken by notify_one, the other is still
\* parked, and a completed notify() found nobody parked before.
OneWokenOneParked ==
    /\ pc["w1"] = "woken"
    /\ pc["w2"] = "parked"
    /\ parked = {"w2"}
    /\ npc["n1"] = "done"

(***************************************************************************)
(* Two waiters, one notify() call.  No set_ready, no reset, no spurious    *)
(* wake.  Every thread that can take a step eventually takes one.          *)
(***************************************************************************)
NextTwoWaiters ==
    \/ \E t \in Waiters : WaiterStep(t)
    \/ NotifyOnce("n1")
    \/ MakeNotifier

SpecTwoWaiters ==
    /\ Init
    /\ [][NextTwoWaiters]_vars
    /\ \A t \in Waiters : WF_vars(WaiterStep(t))
    /\ WF_vars(NotifyOnce("n1"))
    /\ WF_vars(MakeNotifier)

BothParked == pc["w1"] = "parked" /\ pc["w2"] = "parked"

\* C9: with both threads parked before the single notify() call, at least one
\* of them eventually returns; a thread still parked once that call has
\* completed stays parked.
OneNotifyReleasesOne ==
    /\ (BothParked /\ npc["n1"] = "idle") ~> (pc["w1"] = "done" \/ pc["w2"] = "done")
    /\ [][\A t \in Waiters :
             (pc[t] = "parked" /\ npc["n1"] = "done") => pc'[t] = "parked"]_vars

\* One thread has returned, the other is parked and the notify() is over.
OneReturnedOneParked ==
    /\ pc["w1"] = "done"
    /\ pc["w2"] = "parked"
    /\ npc["n1"] = "done"

\* C10: an is_ready() call made when the last write to the flag is a reset()
\* returns false.
ResetThenIsReadyFalse ==
    seenEpoch = "reset" => seen = "false"

\* is_ready() ran after a reset() that followed a completed notify() and a
\* returned wait().
IsReadyAfterReset ==
    /\ seenEpoch = "reset"
    /\ epoch = "reset"
    /\ npc["n1"] = "done"
    /\ pc["w1"] = "done"
    /\ is_ready["w1"]

\* C11: in runs with notify() calls only, the flag is true from a call's store
\* on, a store on a true flag leaves the gate as it is, a wake with nobody
\* parked changes nothing, and a wait() started after both notifiers'
\* calls stays on its first flag check until it returns.
NotifyIdempotent ==
    /\ [](\A n \in Notifiers : npc[n] \in {"stored", "done"} => ready)
    /\ [][\A n \in Notifiers :
             (NotifyStore(n) /\ ready) => (ready' /\ UNCHANGED <<mutex, parked, pc>>)]_vars
    /\ [][\A n \in Notifiers :
             (NotifyOne(n) /\ parked = {}) => UNCHANGED <<ready, mutex, parked, pc>>]_vars
    /\ []((openAtStart["w1"] /\ \A n \in Notifiers : npc[n] = "done")
              => (pc["w1"] \in {"load", "done"} /\ step["w1"] = 0))

\* Two notify() calls have completed and a wait() started after them returned.
ReturnedAfterTwoNotifies ==
    /\ \A n \in Notifiers : npc[n] = "done"
    /\ openAtStart["w1"]
    /\ pc["w1"] = "done"
    /\ ready

\* C12: reset(), the factories, set_ready(), is_ready() and both steps of
\* notify() are enabled in every state where their caller is at them; only
\* wait()'s steps change the mutex or add to the parked threads; notify()
\* is over after its second step.
OnlyWaitBlocks ==
    /\ [](/\ ENABLED Reset
          /\ ENABLED MakeNotifier /\ ENABLED MakeSetter /\ ENABLED MakeSpectator
          /\ "setter" \in handles => ENABLED SetReady
          /\ "spectator" \in handles => ENABLED IsReady
          /\ \A n \in Notifiers :
                /\ npc[n] = "stored" => ENABLED NotifyOne(n)
                /\ ("notifier" \in handles /\ npc[n] # "stored") => ENABLED NotifyStore(n))
    /\ [][mutex' # mutex => \E t \in Waiters : Lock(t) \/ Park(t) \/ Relock(t) \/ Unlock(t)]_vars
    /\ [][~(parked' \subseteq parked) => \E t \in Waiters : Park(t)]_vars
    /\ [][\A n \in Notifiers : (npc[n] = "stored" /\ npc'[n] # "stored") => npc'[n] = "done"]_vars

\* A notify() is between its two steps while one waiter holds the mutex and
\* the other is parked.
NotifyWhileLockHeld ==
    /\ mutex = "w1"
    /\ "w2" \in parked
    /\ npc["n1"] = "stored"

\* C13: a thread woken by the notify_one of a notify() whose store no reset
\* followed finds the flag true and goes from the wake through the unlock
\* and the load to the return, never back to the lock or the queue.
WokenByNotifyReturns ==
    \A t \in Waiters :
        wokenByNotify[t] =>
            /\ ready
            /\ pc[t] \in {"woken", "unlock", "load", "done"}
            /\ t \notin parked

\* A thread parked on a false flag was woken by notify_one and has returned.
ReturnedAfterNotifyWake ==
    /\ wokenByNotify["w1"]
    /\ pc["w1"] = "done"
    /\ ~openAtStart["w1"]

\* C14: within a wait() call the backoff counter never decreases; once it is
\* past the limit it stays there, no further snooze follows, and a load that
\* reads false leads to the lock.
BackoffStaysCompleted ==
    [][\A t \in Waiters :
          pc[t] \notin {"idle", "done"} =>
              /\ step'[t] >= step[t]
              /\ step[t] > YieldLimit =>
                    /\ step'[t] > YieldLimit
                    /\ pc'[t] # "snooze"
                    /\ (pc[t] = "load" /\ ~ready /\ pc'[t] # "load") => pc'[t] = "lock"]_vars

\* A thread was parked on a flag never stored, woke spuriously and holds the
\* mutex again on its way back to the load.
BackAfterSpuriousWake ==
    /\ pc["w1"] = "unlock"
    /\ epoch = "fresh"
    /\ step["w1"] > YieldLimit

\* C15: a thread is on the lock-and-park path only with its backoff past the
\* limit; it snoozes only below it; a snooze adds exactly one to the counter and
\* goes back to the load; nothing else changes the counter within a call, so a
\* call snoozes at most YieldLimit + 1 times.
SpinBeforePark ==
    /\ [](\A t \in Waiters :
             /\ pc[t] \in {"lock", "locked", "parked", "woken", "unlock"} => step[t] > YieldLimit
             /\ pc[t] = "snooze" => step[t] <= YieldLimit
             /\ step[t] <= YieldLimit + 1)
    /\ [][\A t \in Waiters :
             /\ (pc[t] = "snooze" /\ pc'[t] # "snooze")
                   => (pc'[t] = "load" /\ step'[t] = step[t] + 1)
             /\ (pc[t] = "load" /\ pc'[t] = "snooze") => (~ready /\ step'[t] = step[t])
             /\ step'[t] # step[t]
                   => (pc[t] = "snooze" \/ (pc[t] \in {"idle", "done"} /\ step'[t] = 0))]_vars

\* A thread has spun its backoff out on a flag never stored and is parked.
ParkedAfterFullSpin ==
    /\ pc["w1"] = "parked"
    /\ step["w1"] = YieldLimit + 1
    /\ epoch = "fresh"

\* C16: the mutex is held exactly by a thread between its lock and its park or
\* between its wake-up relock and the guard drop, by one thread at most; a
\* parked, returned or idle thread does not hold it; the holder can always
\* take its releasing step.
LockOnlyForPark ==
    /\ \A t \in Waiters : (mutex = t) <=> (pc[t] \in {"locked", "unlock"})
    /\ Cardinality({t \in Waiters : pc[t] \in {"locked", "unlock"}}) <= 1
    /\ \A t \in Waiters : (t \in parked) <=> (pc[t] = "parked")
    /\ \A t \in Waiters : (mutex = t) => ENABLED (Park(t) \/ Unlock(t))

\* Both waiters are parked at once and the mutex is free.
TwoParkedLockFree ==
    /\ parked = Waiters
    /\ BothParked
    /\ mutex = NoThread

\* C17: a step that is an is_ready() call, or that changes the value is_ready()
\* returned, returns the flag's value and leaves the flag, the mutex, the
\* parked threads, every waiter and every notifier as they are.
IsReadyHasNoEffect ==
    [][(IsReady \/ seen' # seen \/ seenEpoch' # seenEpoch) =>
          /\ seen' = (IF ready THEN "true" ELSE "false")
          /\ UNCHANGED <<ready, mutex, parked, pc, is_ready, step, npc, handles>>]_vars

\* is_ready() returned true while a thread was parked and another held the
\* mutex; the flag is still true.
SeenTrueGateIntact ==
    /\ seen = "true"
    /\ seenEpoch = "stored"
    /\ ready
    /\ "w1" \in parked
    /\ mutex = "w2"

(***************************************************************************)
(* Two waiters and set_ready() as the only writer: no notify, no reset.    *)
(***************************************************************************)
NextSetOnly ==
    \/ \E t \in Waiters : WaiterStep(t)
    \/ \E t \in Waiters : SpuriousWake(t)
    \/ SetReady
    \/ MakeSetter

SpecSetOnly == Init /\ [][NextSetOnly]_vars

\* C18: with set_ready() as the only writer, the flag stays true once stored; a
\* thread at its load or in a snooze when the flag is true never moves to the
\* lock; a thread on the lock-and-park path read false at its last load; a
\* parked thread leaves the queue only by a spurious wake.
SetDuringSpinNeverParks ==
    /\ [][ready => ready']_vars
    /\ [][\A t \in Waiters :
             (ready /\ pc[t] \in {"load", "snooze"}) => pc'[t] \in {"load", "snooze", "done"}]_vars
    /\ [](\A t \in Waiters : pc[t] \in {"lock", "locked", "parked"} => ~is_ready[t])
    /\ [][\A t \in Waiters : (pc[t] = "parked" /\ ~SpuriousWake(t)) => pc'[t] = "parked"]_vars

\* The store landed while w2 was spinning and w2 returned; it landed after
\* w1's last load and w1 is parked on a true flag.
OneReturnedFromSpinOneParked ==
    /\ ready
    /\ pc["w1"] = "parked"
    /\ pc["w2"] = "done"
    /\ ~openAtStart["w2"]
    /\ step["w2"] >= 1

\* C19: a wait() call entered while the flag is true counts as started on
\* an open gate; such a call, a first or a later one, stays on its first flag
\* check until it returns and the flag stays true; the load leaves the flag
\* as it is, and only reset() closes the gate.
GateStaysOpen ==
    /\ [](\A t \in Waiters :
             openAtStart[t] =>
                 (ready /\ pc[t] \in {"load", "done"} /\ step[t] = 0 /\ t \notin parked))
    /\ [][\A t \in Waiters :
             /\ (WaitStart(t) /\ ready) => openAtStart'[t]
             /\ Load(t) => ready' = ready]_vars
    /\ [][(ready /\ ~ready') => Reset]_vars

\* w1's second wait() and w2's wait() both returned on the open gate.
SecondWaitReturned ==
    /\ ready
    /\ again["w1"]
    /\ openAtStart["w1"]
    /\ pc["w1"] = "done"
    /\ openAtStart["w2"]
    /\ pc["w2"] = "done"

====
